---- MODULE Spec2Model ----
(***************************************************************************)
(* Arithmetic expression evaluator: Tokenizer (src/tokenizer.rs), Parser   *)
(* (src/parser.rs), eval (src/ast.rs) and evaluate (src/main.rs).          *)
(*                                                                         *)
(* Text is a sequence of one-character strings.  An f64 is the record      *)
(* [n, d] read as n/d: d > 0 a finite value in lowest terms, d = -1 (with  *)
(* n = 0) the negative zero, d = 0 the infinities (n = 1, n = -1) and NaN  *)
(* (n = 0).  Finite arithmetic is exact; a power with a fractional         *)
(* exponent is rounded down to a multiple of 1/PowGrid.  An i64 is a       *)
(* two's-complement integer of IntBits bits.                               *)
(*                                                                         *)
(* Four specifications: Spec is evaluate on a text (its three steps New,   *)
(* Parse, Eval); SpecParse is Parser::parse on the Parser of a text;       *)
(* SpecLex is Tokenizer::next called again and again on a text; SpecEval   *)
(* is eval on a tree.  The recursive methods of the Parser are operators   *)
(* that take the Parser and return it with their result.                   *)
(***************************************************************************)
EXTENDS Integers, Sequences, FiniteSets, TLC

VARIABLES pc, text, parser, yielded, ast, result

vars == <<pc, text, parser, yielded, ast, result>>

\* ------------------------------------------------------------------ bounds

\* Longest text given to evaluate.
MaxLen == 5
\* Longest expression given to Parser::new.
ParseMaxLen == 5
\* Longest text given to the Tokenizer alone, and the calls of next made on it.
LexMaxLen == 4
LexMaxCalls == 6
\* Most nodes of a tree given to eval.
MaxNodes == 5
\* Width of the integers of the bitwise operators, and the grid of a
\* fractional power.
IntBits == 16
PowGrid == 8

\* ------------------------------------------------------------------- f64

F(n, d) == [n |-> n, d |-> d]
NaN == F(0, 0)
Inf == F(1, 0)
NegInf == F(-1, 0)
Zero == F(0, 1)
NegZero == F(0, -1)
One == F(1, 1)

Abs(x) == IF x < 0 THEN -x ELSE x

RECURSIVE GCD(_, _)
GCD(a, b) == IF b = 0 THEN a ELSE GCD(b, a % b)

RECURSIVE IPow(_, _)
IPow(b, e) == IF e = 0 THEN 1 ELSE b * IPow(b, e - 1)

IsNaN(v) == v.d = 0 /\ v.n = 0
IsInf(v) == v.d = 0 /\ v.n # 0
IsZero(v) == v.n = 0 /\ v.d # 0
IsFinite(v) == v.d # 0
\* The sign bit: -1 for negative values, the negative zero and -inf.
Sgn(v) == IF v.n < 0 \/ (v.n = 0 /\ v.d < 0) THEN -1 ELSE 1
SignedZero(s) == IF s < 0 THEN NegZero ELSE Zero
SignedInf(s) == IF s < 0 THEN NegInf ELSE Inf

\* n/d (d > 0, n # 0 or a positive zero) in lowest terms.
Norm(n, d) ==
    LET g == GCD(Abs(n), d) IN F(n \div g, d \div g)

FNeg(a) == IF IsZero(a) THEN SignedZero(-Sgn(a)) ELSE F(-a.n, a.d)

FAdd(a, b) ==
    IF IsNaN(a) \/ IsNaN(b) THEN NaN
    ELSE IF IsInf(a) /\ IsInf(b) THEN (IF a.n = b.n THEN a ELSE NaN)
    ELSE IF IsInf(a) THEN a
    ELSE IF IsInf(b) THEN b
    ELSE IF IsZero(a) /\ IsZero(b)
         THEN (IF Sgn(a) < 0 /\ Sgn(b) < 0 THEN NegZero ELSE Zero)
    ELSE IF IsZero(a) THEN b
    ELSE IF IsZero(b) THEN a
    ELSE Norm(a.n * b.d + b.n * a.d, a.d * b.d)

FSub(a, b) == FAdd(a, FNeg(b))

FMul(a, b) ==
    IF IsNaN(a) \/ IsNaN(b) THEN NaN
    ELSE IF (IsInf(a) /\ IsZero(b)) \/ (IsZero(a) /\ IsInf(b)) THEN NaN
    ELSE IF IsInf(a) \/ IsInf(b) THEN SignedInf(Sgn(a) * Sgn(b))
    ELSE IF IsZero(a) \/ IsZero(b) THEN SignedZero(Sgn(a) * Sgn(b))
    ELSE Norm(a.n * b.n, a.d * b.d)

FDiv(a, b) ==
    IF IsNaN(a) \/ IsNaN(b) THEN NaN
    ELSE IF (IsInf(a) /\ IsInf(b)) \/ (IsZero(a) /\ IsZero(b)) THEN NaN
    ELSE IF IsInf(a) \/ IsZero(b) THEN SignedInf(Sgn(a) * Sgn(b))
    ELSE IF IsInf(b) \/ IsZero(a) THEN SignedZero(Sgn(a) * Sgn(b))
    ELSE Norm(Sgn(b) * a.n * b.d, a.d * Abs(b.n))

\* a finite and not zero, b finite: compare |a| with 1.
AbsCmpOne(a) == IF Abs(a.n) < a.d THEN -1 ELSE IF Abs(a.n) > a.d THEN 1 ELSE 0

IsInteger(v) == IsFinite(v) /\ (IsZero(v) \/ v.d = 1)
IsOddInteger(v) == IsInteger(v) /\ v.n % 2 = 1

\* b^(p/q) for b = bn/bd > 0, p > 0, q > 1, rounded down to the grid.
RootDown(bn, bd, p, q) ==
    LET top == IPow(bn, p) * IPow(PowGrid, q)
        bot == IPow(bd, p)
        RECURSIVE Up(_)
        Up(r) == IF IPow(r + 1, q) * bot <= top THEN Up(r + 1) ELSE r
        r == Up(0)
    IN  IF r = 0 THEN Zero ELSE Norm(r, PowGrid)

\* f64::powf
FPow(a, b) ==
    IF IsZero(b) THEN One
    ELSE IF a = One THEN One
    ELSE IF IsNaN(a) \/ IsNaN(b) THEN NaN
    ELSE IF IsInf(b) THEN
        IF IsInf(a) THEN (IF b.n > 0 THEN Inf ELSE Zero)
        ELSE IF IsZero(a) THEN (IF b.n > 0 THEN Zero ELSE Inf)
        ELSE IF AbsCmpOne(a) = 0 THEN One
        ELSE IF (AbsCmpOne(a) > 0) = (b.n > 0) THEN Inf ELSE Zero
    ELSE IF IsInf(a) \/ IsZero(a) THEN
        \* a is 0 or inf in size, b finite and not zero
        LET s == IF Sgn(a) < 0 /\ IsOddInteger(b) THEN -1 ELSE 1
            grows == IsInf(a) = (b.n > 0)
        IN  IF grows THEN SignedInf(s) ELSE SignedZero(s)
    ELSE IF b.d = 1 THEN
        LET e == Abs(b.n)
            s == IF a.n < 0 /\ e % 2 = 1 THEN -1 ELSE 1
            num == IPow(Abs(a.n), e)
            den == IPow(a.d, e)
        IN  IF b.n > 0 THEN F(s * num, den) ELSE F(s * den, num)
    ELSE IF a.n < 0 THEN NaN
    ELSE IF b.n > 0 THEN RootDown(a.n, a.d, b.n, b.d)
    ELSE RootDown(a.d, a.n, -b.n, b.d)

\* ------------------------------------------------------------------- i64

IntMax == IPow(2, IntBits - 1) - 1
IntMin == -IPow(2, IntBits - 1)

\* `x as i64`: truncation toward zero, saturating, NaN to 0.
AsInt(v) ==
    IF IsNaN(v) THEN 0
    ELSE IF IsInf(v) THEN (IF v.n > 0 THEN IntMax ELSE IntMin)
    ELSE IF IsZero(v) THEN 0
    ELSE LET t == IF v.n >= 0 THEN v.n \div v.d ELSE -((-v.n) \div v.d)
         IN  IF t > IntMax THEN IntMax ELSE IF t < IntMin THEN IntMin ELSE t

\* `x as f64`
AsFloat(i) == F(i, 1)

RECURSIVE BitOp(_, _, _, _)
BitOp(isAnd, x, y, bits) ==
    IF bits = 0 THEN 0
    ELSE LET bx == x % 2
             by == y % 2
             b == IF isAnd THEN bx * by ELSE (IF bx + by > 0 THEN 1 ELSE 0)
         IN  b + 2 * BitOp(isAnd, x \div 2, y \div 2, bits - 1)

Unsigned(i) == i % IPow(2, IntBits)
Signed(u) == IF u > IntMax THEN u - IPow(2, IntBits) ELSE u

IntAnd(x, y) == Signed(BitOp(TRUE, Unsigned(x), Unsigned(y), IntBits))
IntOr(x, y) == Signed(BitOp(FALSE, Unsigned(x), Unsigned(y), IntBits))

\* ----------------------------------------------------------------- Token

Tok(t) == [t |-> t, v |-> Zero]
Num(v) == [t |-> "Num", v |-> v]
EOF == Tok("EOF")
\* Option<Token>::None
None == Tok("None")

DefaultZero == 0
Bitwise == 1
AddSub == 2
MulDiv == 3
Exponent == 4
Negative == 5

\* Mutant: * and / share the level of + and -.
get_oper_prec_flat(tok) ==
    CASE tok.t \in {"And", "Or"} -> Bitwise
      [] tok.t \in {"Add", "Subtract", "Multiply", "Divide"} -> AddSub
      [] tok.t = "Caret" -> Exponent
      [] OTHER -> DefaultZero

\* Mutant: only numbers are at the default level.
get_oper_prec_num(tok) ==
    CASE tok.t \in {"And", "Or"} -> Bitwise
      [] tok.t \in {"Add", "Subtract"} -> AddSub
      [] tok.t \in {"Multiply", "Divide"} -> MulDiv
      [] tok.t = "Caret" -> Exponent
      [] tok.t = "Num" -> DefaultZero
      [] OTHER -> Bitwise

get_oper_prec(tok) ==
    CASE tok.t \in {"And", "Or"} -> Bitwise
      [] tok.t \in {"Add", "Subtract"} -> AddSub
      [] tok.t \in {"Multiply", "Divide"} -> MulDiv
      [] tok.t = "Caret" -> Exponent
      [] OTHER -> DefaultZero

\* ------------------------------------------------------------- Tokenizer

Digits == {"0", "1", "2", "3", "4", "5", "6", "7", "8", "9"}
DigitVal(c) ==
    CASE c = "0" -> 0 [] c = "1" -> 1 [] c = "2" -> 2 [] c = "3" -> 3
      [] c = "4" -> 4 [] c = "5" -> 5 [] c = "6" -> 6 [] c = "7" -> 7
      [] c = "8" -> 8 [] c = "9" -> 9

\* The cursor after the digits and dots that follow position p.
RECURSIVE ScanNumber(_, _)
ScanNumber(expr, p) ==
    IF p < Len(expr) /\ (expr[p + 1] \in Digits \/ expr[p + 1] = ".")
    THEN ScanNumber(expr, p + 1)
    ELSE p

\* str::parse::<f64> of digits and at most one dot, starting with a digit:
\* n the digits read so far as an integer, d ten to the number of digits
\* read after the dot (0 before the dot).
RECURSIVE DecimalValue(_, _, _, _)
DecimalValue(s, i, n, d) ==
    IF i > Len(s) THEN Norm(n, IF d = 0 THEN 1 ELSE d)
    ELSE IF s[i] = "." THEN DecimalValue(s, i + 1, n, 1)
    ELSE DecimalValue(s, i + 1, 10 * n + DigitVal(s[i]), 10 * d)

\* Tokenizer::parse_number with the first digit consumed (the cursor at p):
\* the literal parses unless it has more than one dot.
Tokenizer_parse_number(expr, p) ==
    LET q == ScanNumber(expr, p)
        num_str == SubSeq(expr, p, q)
        dots == Cardinality({i \in 1..Len(num_str) : num_str[i] = "."})
    IN  [tok |-> IF dots <= 1 THEN Num(DecimalValue(num_str, 1, 0, 0)) ELSE None,
         pos |-> q]

\* Mutant: the unrecognized character is left in the text.
UnknownCharKept(p) == [tok |-> None, pos |-> p]

\* The arm of an unrecognized character at p + 1: it is consumed, None is
\* returned.
UnknownChar(p) == [tok |-> None, pos |-> p + 1]

\* Tokenizer::next with the cursor at p (p characters consumed): the
\* Option<Token> returned and the cursor after the call.
RECURSIVE Tokenizer_next(_, _)
Tokenizer_next(expr, p) ==
    IF p >= Len(expr) THEN [tok |-> EOF, pos |-> p]
    ELSE LET c == expr[p + 1] IN
         CASE c \in Digits -> Tokenizer_parse_number(expr, p + 1)
           [] c = "+" -> [tok |-> Tok("Add"), pos |-> p + 1]
           [] c = "-" -> [tok |-> Tok("Subtract"), pos |-> p + 1]
           [] c = "*" -> [tok |-> Tok("Multiply"), pos |-> p + 1]
           [] c = "/" -> [tok |-> Tok("Divide"), pos |-> p + 1]
           [] c = "^" -> [tok |-> Tok("Caret"), pos |-> p + 1]
           [] c = "&" -> [tok |-> Tok("And"), pos |-> p + 1]
           [] c = "|" -> [tok |-> Tok("Or"), pos |-> p + 1]
           [] c = "(" -> [tok |-> Tok("LeftParen"), pos |-> p + 1]
           [] c = ")" -> [tok |-> Tok("RightParen"), pos |-> p + 1]
           [] c \in {" ", "\t", "\n"} -> Tokenizer_next(expr, p + 1)
           [] OTHER -> UnknownChar(p)

\* ------------------------------------------------------------------ Node

Number(v) == [op |-> "Number", v |-> v]
Unary(a) == [op |-> "Negative", a |-> a]
Binary(op, l, r) == [op |-> op, l |-> l, r |-> r]
\* No tree (before parse returns one, or when it fails).
NoNode == [op |-> "NoNode"]

BinaryOps == {"And", "Or", "Add", "Subtract", "Multiply", "Divide", "Caret"}

\* ------------------------------------------------------------ ParseError

UnableToParse(msg) == [variant |-> "UnableToParse", msg |-> msg]
InvalidOperator(msg) == [variant |-> "InvalidOperator", msg |-> msg]
NoError == [variant |-> "NoError", msg |-> <<>>]

\* ---------------------------------------------------------------- Parser

(* The Parser is [expr, pos, current_token]: the Tokenizer's text and the   *)
(* count of characters it has consumed, and the lookahead.  Observation     *)
(* only: depth, the generate_ast calls in progress; pulls, the tokens the   *)
(* lexer has yielded to the parser; trace, what the parser did, in order.   *)
NoParser ==
    [expr |-> <<>>, pos |-> 0, current_token |-> None,
     depth |-> 0, pulls |-> 0, trace |-> <<>>]

\* An entry of the trace: tok is the lookahead when it was written, and for
\* a pull the token consumed; got is what the lexer yielded (pull only).
Event(e, ps, got) ==
    [e |-> e, depth |-> ps.depth, pulls |-> ps.pulls,
     tok |-> ps.current_token, got |-> got]
Note(ps, e) == [ps EXCEPT !.trace = Append(@, Event(e, ps, None))]

\* Result<Node, ParseError> (or Result<(), ParseError>) with the parser the
\* call leaves behind.
Ok(node, ps) == [ok |-> TRUE, node |-> node, err |-> NoError, ps |-> ps]
Err(err, ps) == [ok |-> FALSE, node |-> NoNode, err |-> err, ps |-> ps]

\* The lexer is pulled once: cursor, counters and trace after the pull.
Pulled(ps, r) ==
    [ps EXCEPT !.pos = r.pos,
               !.pulls = IF r.tok = None THEN @ ELSE @ + 1,
               !.trace = Append(@, Event("pull", ps, r.tok))]

\* Op applied to the value of x, which is computed once.
Bind(x, Op(_)) == CHOOSE y \in {Op(v) : v \in {x}} : TRUE

\* Mutant: the first pull reports what the later pulls report.
Parser_new_late(expr) ==
    Bind(Tokenizer_next(expr, 0), LAMBDA r :
        IF r.tok = None
        THEN Err(InvalidOperator(<<"Unexpected end of input">>),
                 Pulled([NoParser EXCEPT !.expr = expr], r))
        ELSE Ok(NoNode, [Pulled([NoParser EXCEPT !.expr = expr], r)
                            EXCEPT !.current_token = r.tok]))

Parser_new(expr) ==
    Bind(Tokenizer_next(expr, 0), LAMBDA r :
        IF r.tok = None
        THEN Err(InvalidOperator(<<"Invalid character">>),
                 Pulled([NoParser EXCEPT !.expr = expr], r))
        ELSE Ok(NoNode, [Pulled([NoParser EXCEPT !.expr = expr], r)
                            EXCEPT !.current_token = r.tok]))

get_next_token(ps) ==
    Bind(Tokenizer_next(ps.expr, ps.pos), LAMBDA r :
        IF r.tok = None
        THEN Err(InvalidOperator(<<"Unexpected end of input">>), Pulled(ps, r))
        ELSE Ok(NoNode, [Pulled(ps, r) EXCEPT !.current_token = r.tok]))

check_paren(ps, expected) ==
    IF ps.current_token = expected
    THEN get_next_token(ps)
    ELSE Err(InvalidOperator(<<"Expected {:?}, got {:?}", expected,
                               ps.current_token>>), ps)

RECURSIVE generate_ast(_, _)
RECURSIVE generate_ast_loop(_, _, _)
RECURSIVE parse_number(_)
RECURSIVE convert_token_to_node(_, _)

\* Mutant: the right operand may take operators of the arm's own level.
ConvertArmRight(ps, left_expr, oper_prec, op) ==
    Bind(get_next_token(ps), LAMBDA t :
        IF ~t.ok THEN t
        ELSE Bind(generate_ast(t.ps, oper_prec - 1), LAMBDA right_expr :
                IF ~right_expr.ok THEN right_expr
                ELSE Ok(Binary(op, left_expr, right_expr.node), right_expr.ps)))

\* Mutant: the right operand is parsed before the operator is consumed.
ConvertArmLate(ps, left_expr, oper_prec, op) ==
    Bind(generate_ast(ps, oper_prec), LAMBDA right_expr :
        IF ~right_expr.ok THEN right_expr
        ELSE Bind(get_next_token(right_expr.ps), LAMBDA t :
                IF ~t.ok THEN t
                ELSE Ok(Binary(op, left_expr, right_expr.node), t.ps)))

\* One arm of convert_token_to_node: the operator is consumed, the right
\* operand is parsed at the arm's level, the node is built.
ConvertArm(ps, left_expr, oper_prec, op) ==
    Bind(get_next_token(ps), LAMBDA t :
        IF ~t.ok THEN t
        ELSE Bind(generate_ast(t.ps, oper_prec), LAMBDA right_expr :
                IF ~right_expr.ok THEN right_expr
                ELSE Ok(Binary(op, left_expr, right_expr.node), right_expr.ps)))

convert_token_to_node(ps0, left_expr) ==
    Bind(Note(ps0, "convert_token_to_node"), LAMBDA ps :
        CASE ps.current_token.t = "Add" -> ConvertArm(ps, left_expr, AddSub, "Add")
          [] ps.current_token.t = "Subtract" -> ConvertArm(ps, left_expr, AddSub, "Subtract")
          [] ps.current_token.t = "Multiply" -> ConvertArm(ps, left_expr, MulDiv, "Multiply")
          [] ps.current_token.t = "Divide" -> ConvertArm(ps, left_expr, MulDiv, "Divide")
          [] ps.current_token.t = "Caret" -> ConvertArm(ps, left_expr, Exponent, "Caret")
          [] ps.current_token.t = "And" -> ConvertArm(ps, left_expr, Bitwise, "And")
          [] ps.current_token.t = "Or" -> ConvertArm(ps, left_expr, Bitwise, "Or")
          [] OTHER -> Err(InvalidOperator(<<"Unexpected operator {:?}",
                                            ps.current_token>>), ps))

parse_number(ps) ==
    CASE ps.current_token.t = "Subtract" ->
            Bind(get_next_token(ps), LAMBDA t :
                IF ~t.ok THEN t
                ELSE Bind(generate_ast(t.ps, Negative), LAMBDA expr :
                        IF ~expr.ok THEN expr ELSE Ok(Unary(expr.node), expr.ps)))
      [] ps.current_token.t = "Num" ->
            Bind(get_next_token(ps), LAMBDA t :
                IF ~t.ok THEN t ELSE Ok(Number(ps.current_token.v), t.ps))
      [] ps.current_token.t = "LeftParen" ->
            Bind(get_next_token(ps), LAMBDA t :
                IF ~t.ok THEN t
                ELSE Bind(generate_ast(t.ps, DefaultZero), LAMBDA expr :
                        IF ~expr.ok THEN expr
                        ELSE Bind(check_paren(expr.ps, Tok("RightParen")), LAMBDA c :
                                IF ~c.ok THEN c ELSE Ok(expr.node, c.ps))))
      [] OTHER -> Err(UnableToParse(<<"Unexpected token">>), ps)

\* The while loop of generate_ast, from its test.
generate_ast_loop(ps, oper_prec, left_expr) ==
    IF oper_prec < get_oper_prec(ps.current_token)
    THEN IF ps.current_token = EOF
         THEN Ok(left_expr, Note(ps, "break"))
         ELSE Bind(convert_token_to_node(Note(ps, "iteration"), left_expr),
                   LAMBDA right_expr :
                      IF ~right_expr.ok THEN right_expr
                      ELSE generate_ast_loop(right_expr.ps, oper_prec, right_expr.node))
    ELSE Ok(left_expr, ps)

generate_ast(ps0, oper_prec) ==
    Bind(parse_number(Note([ps0 EXCEPT !.depth = @ + 1], "generate_ast")),
         LAMBDA left_expr :
            Bind(IF ~left_expr.ok THEN left_expr
                 ELSE generate_ast_loop(left_expr.ps, oper_prec, left_expr.node),
                 LAMBDA r : [r EXCEPT !.ps.depth = @ - 1]))

parse(ps) == generate_ast(ps, DefaultZero)

\* ------------------------------------------------------------------ eval

\* Result<f64, Box<dyn Error>>; the only error is "Division by zero".
EvalOk(v) == [ok |-> TRUE, v |-> v]
EvalErr == [ok |-> FALSE, v |-> NaN]

\* Mutant: the divisor is not tested.
DivideArmUnchecked(a, divisor) ==
    IF ~divisor.ok THEN EvalErr
    ELSE IF ~a.ok THEN EvalErr ELSE EvalOk(FDiv(a.v, divisor.v))

\* The Divide arm of eval, a and divisor the results of eval on the left and
\* the right operand: the divisor is evaluated and tested first.
DivideArm(a, divisor) ==
    IF ~divisor.ok THEN EvalErr
    ELSE IF IsZero(divisor.v) THEN EvalErr
    ELSE IF ~a.ok THEN EvalErr ELSE EvalOk(FDiv(a.v, divisor.v))

\* The arm of a binary operator other than Divide, a and b the results of
\* eval on its operands and v the value the operator gives: an error of
\* either operand is returned, else v.
BinaryArm(a, b, v) ==
    IF a.ok /\ b.ok THEN EvalOk(v) ELSE EvalErr

BitAnd(x, y) == AsFloat(IntAnd(AsInt(x), AsInt(y)))
BitOr(x, y) == AsFloat(IntOr(AsInt(x), AsInt(y)))

RECURSIVE eval(_)
eval(expr) ==
    IF expr.op = "Number" THEN EvalOk(expr.v)
    ELSE IF expr.op = "Negative"
    THEN Bind(eval(expr.a), LAMBDA a : IF ~a.ok THEN EvalErr ELSE EvalOk(FNeg(a.v)))
    ELSE Bind(eval(expr.l), LAMBDA a : Bind(eval(expr.r), LAMBDA b :
        CASE expr.op = "Add" -> BinaryArm(a, b, FAdd(a.v, b.v))
          [] expr.op = "Subtract" -> BinaryArm(a, b, FSub(a.v, b.v))
          [] expr.op = "Multiply" -> BinaryArm(a, b, FMul(a.v, b.v))
          [] expr.op = "Divide" -> DivideArm(a, b)
          [] expr.op = "Caret" -> BinaryArm(a, b, FPow(a.v, b.v))
          [] expr.op = "And" -> BinaryArm(a, b, BitAnd(a.v, b.v))
          [] expr.op = "Or" -> BinaryArm(a, b, BitOr(a.v, b.v))))

\* -------------------------------------------------------------- evaluate

\* Result<f64, ParseError>
NoResult == [kind |-> "None", v |-> NaN, err |-> NoError]
ResultOk(v) == [kind |-> "Ok", v |-> v, err |-> NoError]
ResultErr(e) == [kind |-> "Err", v |-> NaN, err |-> e]

\* impl From<Box<dyn Error>> for ParseError
FromEvalError == UnableToParse(<<"Parsing error occurred">>)

\* char::is_whitespace, on the characters the model's texts use.
IsWhitespace(c) == c \in {" ", "\t", "\n", "\r"}

\* expr.split_whitespace().collect::<String>()
RECURSIVE StripWhitespace(_)
StripWhitespace(s) ==
    IF s = <<>> THEN <<>>
    ELSE IF IsWhitespace(Head(s)) THEN StripWhitespace(Tail(s))
    ELSE <<Head(s)>> \o StripWhitespace(Tail(s))

\* ----------------------------------------------------------------- texts

TextsUpTo(alphabet, n) == UNION {[1..k -> alphabet] : k \in 0..n}

\* The characters of the texts given to evaluate, to Parser::new and to the
\* Tokenizer.
EvaluateAlphabet == {"0", "1", ".", "+", "/", "(", ")", "$", " "}
ParseAlphabet == {"1", "+", "-", "*", "/", "^", "&", "|", "(", ")"}
LexAlphabet == {"1", ".", "+", " ", "$"}

\* The numbers at the leaves of the trees given to eval.
LeafValues == {Zero, One, F(2, 1)}

\* The trees of exactly k nodes.
RECURSIVE TreesOfSize(_)
TreesOfSize(k) ==
    IF k = 1 THEN {Number(v) : v \in LeafValues}
    ELSE {Unary(a) : a \in TreesOfSize(k - 1)}
         \cup UNION {{Binary(op, l, r) : op \in BinaryOps,
                                         l \in TreesOfSize(i),
                                         r \in TreesOfSize(k - 1 - i)}
                     : i \in 1..(k - 2)}

TreesUpTo(n) == UNION {TreesOfSize(k) : k \in 1..n}

\* --------------------------------------------------------------- actions

\* evaluate, first step: the whitespace is removed and the Parser built.
New ==
    /\ pc = "evaluate"
    /\ \E r \in {Parser_new(StripWhitespace(text))} :
       /\ parser' = r.ps
       /\ IF r.ok
          THEN pc' = "parse" /\ result' = result
          ELSE pc' = "done" /\ result' = ResultErr(r.err)
    /\ UNCHANGED <<text, yielded, ast>>

\* Parser::parse (in evaluate: math_parser.parse()?).
Parse ==
    /\ pc = "parse"
    /\ \E r \in {parse(parser)} :
       /\ parser' = r.ps
       /\ ast' = r.node
       /\ IF r.ok
          THEN pc' = "eval" /\ result' = result
          ELSE pc' = "done" /\ result' = ResultErr(r.err)
    /\ UNCHANGED <<text, yielded>>

\* ast::eval (in evaluate: Ok(ast::eval(ast)?)).
Eval ==
    /\ pc = "eval"
    /\ \E r \in {eval(ast)} :
       result' = IF r.ok THEN ResultOk(r.v) ELSE ResultErr(FromEvalError)
    /\ pc' = "done"
    /\ UNCHANGED <<text, parser, yielded, ast>>

\* Tokenizer::next, called on a Tokenizer of its own.
LexNext ==
    /\ pc = "lex"
    /\ Len(yielded) < LexMaxCalls
    /\ \E r \in {Tokenizer_next(parser.expr, parser.pos)} :
       /\ parser' = [parser EXCEPT !.pos = r.pos]
       /\ yielded' = Append(yielded, r.tok)
    /\ UNCHANGED <<pc, text, ast, result>>

\* -------------------------------------------------------- specifications

\* evaluate(text)
Init ==
    /\ pc = "evaluate"
    /\ text \in TextsUpTo(EvaluateAlphabet, MaxLen)
    /\ parser = NoParser
    /\ yielded = <<>>
    /\ ast = NoNode
    /\ result = NoResult

Next == New \/ Parse \/ Eval

Spec == Init /\ [][Next]_vars

\* Parser::new(text) has returned a Parser; parse is called on it.
InitParse ==
    /\ pc = "parse"
    /\ text \in TextsUpTo(ParseAlphabet, ParseMaxLen)
    /\ parser = Parser_new(text).ps
    /\ yielded = <<>>
    /\ ast = NoNode
    /\ result = NoResult

NextParse == Parse

SpecParse == InitParse /\ [][NextParse]_vars

\* Tokenizer::new(text); next is called again and again.
InitLex ==
    /\ pc = "lex"
    /\ text \in TextsUpTo(LexAlphabet, LexMaxLen)
    /\ parser = [NoParser EXCEPT !.expr = text]
    /\ yielded = <<>>
    /\ ast = NoNode
    /\ result = NoResult

NextLex == LexNext

SpecLex == InitLex /\ [][NextLex]_vars

\* eval(ast)
InitEval ==
    /\ pc = "eval"
    /\ text = <<>>
    /\ parser = NoParser
    /\ yielded = <<>>
    /\ ast \in TreesUpTo(MaxNodes)
    /\ result = NoResult

NextEval == Eval

SpecEval == InitEval /\ [][NextEval]_vars

\* ---------------------------------------------------- what the claims use

\* The tokens the Tokenizer yields for expr from cursor p, up to and with the
\* first EOF or None.
RECURSIVE TokensFrom(_, _)
TokensFrom(expr, p) ==
    LET r == Tokenizer_next(expr, p) IN
    IF r.tok \in {EOF, None} THEN <<r.tok>>
    ELSE <<r.tok>> \o TokensFrom(expr, r.pos)

Tokens(expr) == TokensFrom(expr, 0)

(* The reference stratified grammar, on a token sequence ts from index i:   *)
(*   level1 ::= level2 (("&" | "|") level2)*                                *)
(*   level2 ::= level3 (("+" | "-") level3)*                                *)
(*   level3 ::= level4 (("*" | "/") level4)*                                *)
(*   level4 ::= unary ("^" unary)*                                          *)
(*   unary  ::= "-" unary | primary                                         *)
(*   primary ::= Num | "(" level1 ")"                                       *)
(* Each operator returns [ok, node, i]: the tree and the index after it.    *)
RefOps(level) ==
    CASE level = 1 -> {"And", "Or"}
      [] level = 2 -> {"Add", "Subtract"}
      [] level = 3 -> {"Multiply", "Divide"}
      [] level = 4 -> {"Caret"}

RefFail == [ok |-> FALSE, node |-> NoNode, i |-> 0]
RefOk(node, i) == [ok |-> TRUE, node |-> node, i |-> i]

RECURSIVE RefLevel(_, _, _)
RECURSIVE RefTail(_, _, _, _)
RECURSIVE RefUnary(_, _)

RefPrimary(ts, i) ==
    CASE ts[i].t = "Num" -> RefOk(Number(ts[i].v), i + 1)
      [] ts[i].t = "LeftParen" ->
            LET r == RefLevel(1, ts, i + 1) IN
            IF r.ok /\ ts[r.i].t = "RightParen" THEN RefOk(r.node, r.i + 1)
            ELSE RefFail
      [] OTHER -> RefFail

RefUnary(ts, i) ==
    IF ts[i].t = "Subtract"
    THEN LET r == RefUnary(ts, i + 1) IN
         IF r.ok THEN RefOk(Unary(r.node), r.i) ELSE RefFail
    ELSE RefPrimary(ts, i)

RefOperand(level, ts, i) ==
    IF level = 4 THEN RefUnary(ts, i) ELSE RefLevel(level + 1, ts, i)

RefTail(level, ts, i, left) ==
    IF ts[i].t \in RefOps(level)
    THEN LET r == RefOperand(level, ts, i + 1) IN
         IF r.ok THEN RefTail(level, ts, r.i, Binary(ts[i].t, left, r.node))
         ELSE RefFail
    ELSE RefOk(left, i)

RefLevel(level, ts, i) ==
    LET r == RefOperand(level, ts, i) IN
    IF r.ok THEN RefTail(level, ts, r.i, r.node) ELSE RefFail

\* The tree of a well-formed token sequence (one the grammar derives up to
\* its EOF), and RefFail for any other.
RefParse(ts) ==
    LET r == RefLevel(1, ts, 1) IN
    IF r.ok /\ r.i = Len(ts) /\ ts[r.i] = EOF THEN r ELSE RefFail

RECURSIVE Height(_)
Height(node) ==
    CASE node.op = "Number" -> 1
      [] node.op = "Negative" -> 1 + Height(node.a)
      [] OTHER -> LET hl == Height(node.l) hr == Height(node.r)
                  IN  1 + (IF hl > hr THEN hl ELSE hr)

\* The tree has a Divide node whose right operand evaluates to zero.
RECURSIVE HasZeroDivisor(_)
HasZeroDivisor(node) ==
    CASE node.op = "Number" -> FALSE
      [] node.op = "Negative" -> HasZeroDivisor(node.a)
      [] OTHER ->
            \/ HasZeroDivisor(node.l)
            \/ HasZeroDivisor(node.r)
            \/ /\ node.op = "Divide"
               /\ eval(node.r).ok
               /\ IsZero(eval(node.r).v)

\* The parentheses of s are balanced: open counts the "(" not yet closed.
RECURSIVE Balanced(_, _)
Balanced(s, open) ==
    IF s = <<>> THEN open = 0
    ELSE IF Head(s) = "(" THEN Balanced(Tail(s), open + 1)
    ELSE IF Head(s) = ")" THEN open > 0 /\ Balanced(Tail(s), open - 1)
    ELSE Balanced(Tail(s), open)

\* The characters an expression is made of.
ExpressionChars ==
    Digits \cup {".", "+", "-", "*", "/", "^", "&", "|", "(", ")"}

Trace == parser.trace
PullsAbsent == {i \in 1..Len(Trace) : Trace[i].e = "pull" /\ Trace[i].got = None}

\* ---------------------------------------------------------------- claims

\* C1: after parse, under SpecParse: when the tokens of the text are a
\* well-formed expression of the reference stratified grammar (levels
\* Bitwise < AddSub < MulDiv < Exponent < unary minus), parse has returned
\* exactly the grammar's tree.
C1_Precedence ==
    pc # "parse" =>
        LET ref == RefParse(Tokens(text)) IN
        ref.ok => pc = "eval" /\ ast = ref.node

C1_Witness ==
    /\ pc = "eval"
    /\ text = <<"1", "+", "1", "*", "1">>
    /\ ast = Binary("Add", Number(One), Binary("Multiply", Number(One), Number(One)))

\* C2: after parse: a text a op1 b op2 c whose two operators are of the same
\* level has the tree op2(op1(a, b), c).
C2_LeftAssociative ==
    pc # "parse" =>
        LET ts == Tokens(text) IN
        (/\ Len(ts) = 6
         /\ ts[1].t = "Num" /\ ts[3].t = "Num" /\ ts[5].t = "Num" /\ ts[6] = EOF
         /\ \E level \in 1..4 : ts[2].t \in RefOps(level) /\ ts[4].t \in RefOps(level))
        => /\ pc = "eval"
           /\ ast = Binary(ts[4].t,
                           Binary(ts[2].t, Number(ts[1].v), Number(ts[3].v)),
                           Number(ts[5].v))

C2_Witness ==
    /\ pc = "eval"
    /\ text = <<"1", "^", "1", "^", "1">>
    /\ ast = Binary("Caret", Binary("Caret", Number(One), Number(One)), Number(One))

\* C3: evaluate returns a number only for a text whose parentheses are
\* balanced.
C3_UnbalancedFails ==
    result.kind = "Ok" => Balanced(text, 0)

\* C4: evaluate returns a number only for a text made of whitespace and
\* expression characters.
C4_InvalidCharacterFails ==
    result.kind = "Ok" =>
        \A i \in 1..Len(text) : IsWhitespace(text[i]) \/ text[i] \in ExpressionChars

C6_ErrorTellsFailure ==
    pc = "done" /\ result.kind = "Err" =>
        /\ (result.err = FromEvalError) = (ast # NoNode)
        /\ ast # NoNode => HasZeroDivisor(ast) /\ PullsAbsent = {}
        /\ (result.err = InvalidOperator(<<"Invalid character">>)) = (1 \in PullsAbsent)
        /\ (result.err = InvalidOperator(<<"Unexpected end of input">>))
               = (\E i \in PullsAbsent : i > 1)
        /\ (ast = NoNode /\ PullsAbsent = {})
           => \/ result.err = UnableToParse(<<"Unexpected token">>)
              \/ /\ result.err.variant = "InvalidOperator"
                 /\ result.err.msg[1] = "Expected {:?}, got {:?}"

C6_Witness ==
    /\ pc = "done"
    /\ result.err = InvalidOperator(<<"Unexpected end of input">>)
    /\ Len(Trace) > 1
    /\ Trace[Len(Trace)].got = None

\* C7: once the Tokenizer has consumed the whole text every call of next
\* yields EOF; before that every call consumes at least one character; so
\* for a text of n characters EOF is among the first n + 1 results, and the
\* empty text yields EOF at once.
C7_EndOfInputForever ==
    /\ [][parser.pos = Len(text) => yielded' = Append(yielded, EOF)]_vars
    /\ [][parser.pos < Len(text) => parser'.pos > parser.pos]_vars
    /\ [](Len(yielded) > Len(text)
            => \E i \in 1..(Len(text) + 1) : yielded[i] = EOF)
    /\ [](text = <<>> /\ yielded # <<>> => yielded[1] = EOF)

C7_Witness ==
    /\ Len(yielded) = 4
    /\ yielded[2] = None
    /\ yielded[3] = EOF
    /\ yielded[4] = EOF

\* C8: parse has returned a tree or an error; every generate_ast call is
\* entered with no more calls in progress than tokens pulled; every nested
\* call and every iteration of the loop comes right after a pull that
\* consumed a lookahead other than EOF; EOF is pulled at most once, so the
\* pulls are at most the characters of the text plus one and the steps of
\* parse at most three times as many; and the height of the tree returned is
\* at most the pulls.
C8_DepthBoundedByPulls ==
    pc # "parse" =>
    /\ (pc = "eval" /\ ast # NoNode) \/ (pc = "done" /\ result.kind = "Err")
    /\ \A i \in 1..Len(Trace) :
          /\ Trace[i].e = "generate_ast" => Trace[i].depth <= Trace[i].pulls
          /\ (Trace[i].e = "iteration"
              \/ (Trace[i].e = "generate_ast" /\ Trace[i].depth > 1))
             => /\ Trace[i - 1].e = "pull"
                /\ Trace[i - 1].got # None
                /\ Trace[i - 1].tok # EOF
    /\ Cardinality({i \in 1..Len(Trace) :
                      Trace[i].e = "pull" /\ Trace[i].got = EOF}) <= 1
    /\ parser.pulls <= Len(text) + 1
    /\ Len(Trace) <= 3 * (Len(text) + 1)
    /\ parser.depth = 0
    /\ pc = "eval" => Height(ast) <= parser.pulls

C8_Witness ==
    /\ pc = "eval"
    /\ text = <<"(", "(", "1", ")", ")">>
    /\ \E i \in 1..Len(Trace) :
          Trace[i].e = "generate_ast" /\ Trace[i].depth = 3 /\ Trace[i].pulls = 3

\* C9: when parse has returned a tree the lookahead is EOF, and evaluate
\* returns a number only when the Tokenizer has consumed the whole text.
C9_WholeInputParsed ==
    /\ pc = "eval" => parser.current_token = EOF
    /\ result.kind = "Ok" =>
          parser.current_token = EOF /\ parser.pos = Len(parser.expr)

\* C10: convert_token_to_node is called only with a binary operator as
\* lookahead, the EOF break of the loop is never taken, and parse never
\* returns the error "Unexpected operator".
C10_ConvertOnlyOnOperators ==
    /\ \A i \in 1..Len(Trace) :
          /\ Trace[i].e = "convert_token_to_node" => Trace[i].tok.t \in BinaryOps
          /\ Trace[i].e # "break"
    /\ result.kind = "Err" => result.err.msg[1] # "Unexpected operator {:?}"

C10_Witness ==
    /\ pc = "done"
    /\ result.err = UnableToParse(<<"Unexpected token">>)
    /\ \E i \in 1..Len(Trace) :
          Trace[i].e = "convert_token_to_node" /\ Trace[i].tok.t = "Or"

====
